---- MODULE Spec2Model ----
(***************************************************************************)
(* Model of src/db.rs: the Db handle over a store_rpc key/value transport. *)
(* Db::with registers the tables; retrieve/store and their _h variants are *)
(* typed pass-throughs; store_merge/store_merge_h read, merge-reveal and   *)
(* write back.                                                             *)
(***************************************************************************)
EXTENDS Integers, Sequences, FiniteSets, TLC

\* ---------------------------------------------------------------- bounds
NumKeys == 2      \* distinct 32-byte digests used as keys
NumRoots == 2     \* distinct committed roots
NumFields == 2    \* concealable fields of a mergeable object
MaxOps == 2       \* data calls (retrieve/store/store_merge) in one behaviour

Keys == 1..NumKeys
Roots == 1..NumRoots
Fields == 1..NumFields

\* ------------------------------------------------- tables (db.rs 25-33)
Tables ==
  {"Schemata", "Bundles", "Genesis", "Transitions", "Anchors", "Extensions",
   "AttachmentChunks", "AttachmentIndex", "AluLibraries"}

\* The string each Db::* constant holds.
TableName ==
  [t \in Tables |->
     CASE t = "Schemata" -> "schemata"
       [] t = "Bundles" -> "bundles"
       [] t = "Genesis" -> "genesis"
       [] t = "Transitions" -> "transitions"
       [] t = "Anchors" -> "transitions"
       [] t = "Extensions" -> "extensions"
       [] t = "AttachmentChunks" -> "chunks"
       [] t = "AttachmentIndex" -> "attachments"
       [] t = "AluLibraries" -> "alu"]

Names == {TableName[t] : t \in Tables}

GENESIS == "Genesis"

\* Mutant of TableList: the loop's array lacks its last table.
TableListShort ==
  <<"Schemata", "Bundles", "Genesis", "Transitions", "Anchors", "Extensions",
    "AttachmentChunks", "AttachmentIndex">>

\* The array Db::with iterates over, in order.
TableList ==
  <<"Schemata", "Bundles", "Genesis", "Transitions", "Anchors", "Extensions",
    "AttachmentChunks", "AttachmentIndex", "AluLibraries">>

\* ------------------------------------------------------------- objects
\* A mergeable object: a committed root and the set of fields it discloses.
\* A blob: an object without partial-reveal semantics (attachment chunk).
Reveal(r, D) == [ty |-> "reveal", root |-> r, disc |-> D, data |-> <<>>]
Blob(bs) == [ty |-> "blob", root |-> 0, disc |-> {}, data |-> bs]

Reveals == {Reveal(r, D) : r \in Roots, D \in SUBSET Fields}
Blobs == {Blob(<<7>>)}
Objects == Reveals \cup Blobs

\* The value a root commits to for a field.
FieldVal(r, f) == 10 * r + f


\* Option values: None is the empty sequence, Some(x) the one-element one.
None == <<>>
Some(x) == <<x>>

\* ------------------------------------------- strict encoding of objects
\* A mergeable object is its root followed, per field in order, by 0 for a
\* concealed field or 1 and the value for a disclosed one; a blob is its
\* length followed by its bytes.
RECURSIVE EncFields(_, _)
EncFields(o, f) ==
  IF f > NumFields THEN <<>>
  ELSE (IF f \in o.disc THEN <<1, FieldVal(o.root, f)>> ELSE <<0>>)
         \o EncFields(o, f + 1)

Encode(o) ==
  IF o.ty = "reveal" THEN <<o.root>> \o EncFields(o, 1)
  ELSE <<Len(o.data)>> \o o.data

\* Parses the fields from position pos on; Some(disclosed set), or None when
\* the bytes are truncated, have trailing data or an unknown flag.
RECURSIVE DecFields(_, _, _, _)
DecFields(bs, pos, f, acc) ==
  IF f > NumFields THEN (IF pos = Len(bs) + 1 THEN Some(acc) ELSE None)
  ELSE IF pos > Len(bs) THEN None
  ELSE IF bs[pos] = 0 THEN DecFields(bs, pos + 1, f + 1, acc)
  ELSE IF bs[pos] = 1 /\ pos + 1 <= Len(bs) /\ bs[pos + 1] = FieldVal(bs[1], f)
    THEN DecFields(bs, pos + 2, f + 1, acc \cup {f})
  ELSE None

\* T::strict_decode for the type ty: Some(object) or None for a decode error.
Decode(ty, bs) ==
  IF Len(bs) = 0 THEN None
  ELSE IF ty = "reveal"
    THEN LET d == DecFields(bs, 2, 1, {}) IN
         IF d = None THEN None ELSE Some(Reveal(bs[1], d[1]))
  ELSE IF Len(bs) = bs[1] + 1 THEN Some(Blob(SubSeq(bs, 2, Len(bs))))
  ELSE None

\* ------------------------------------------------------- merge-reveal
\* Mutant of MergeReveal: a field disclosed by both operands is taken for a
\* mismatch.
MergeRevealNoOverlap(new, stored) ==
  IF new.root = stored.root /\ (new.disc \cap stored.disc = {} \/ new = stored)
    THEN Some(Reveal(new.root, new.disc \cup stored.disc))
  ELSE None

\* MergeReveal::merge_reveal: Some(union of the disclosures) when both
\* operands commit to the same root, None (Err) otherwise.
MergeReveal(new, stored) ==
  IF new.root = stored.root
    THEN Some(Reveal(new.root, new.disc \cup stored.disc))
  ELSE None

\* ---------------------------------------------------------------- keys
\* A tagged commitment key wraps a sha256t hash that wraps the 32 bytes; a
\* plain digest key wraps the 32 bytes directly.
TaggedKey(k) == [tag |-> "tagged", hash |-> [inner |-> k]]
PlainKey(k) == [inner |-> k]
TaggedKeys == {TaggedKey(k) : k \in Keys}
PlainKeys == {PlainKey(k) : k \in Keys}

\* key.into_inner().into_inner() and *key.as_inner(), as a Slice32.
SliceOfTagged(key) == key.hash.inner
SliceOfPlain(key) == key.inner

\* ----------------------------------------------------- store transport
\* store_rpc::Client::retrieve: the bytes at (table name, key), or a
\* transport failure when the round trip fails (io = FALSE).
ClientRetrieve(d, name, slice, io) ==
  IF io THEN [ok |-> TRUE, data |-> d[name, slice]]
  ELSE [ok |-> FALSE, data |-> None]

\* store_rpc::Client::store: puts the bytes at (table name, key).
ClientStore(d, name, slice, bytes, io) ==
  IF io THEN [ok |-> TRUE, db |-> [d EXCEPT ![name, slice] = Some(bytes)]]
  ELSE [ok |-> FALSE, db |-> d]

\* ------------------------------------------------- Db::retrieve, store
\* Shared body of retrieve and retrieve_h once the key is a Slice32.
RetrieveSlice(d, t, slice, ty, io) ==
  LET got == ClientRetrieve(d, TableName[t], slice, io) IN
  IF ~got.ok THEN [out |-> "IOError", result |-> None, db |-> d]
  ELSE IF got.data = None THEN [out |-> "Ok", result |-> None, db |-> d]
  ELSE LET dec == Decode(ty, got.data[1]) IN
       IF dec = None THEN [out |-> "DecodeError", result |-> None, db |-> d]
       ELSE [out |-> "Ok", result |-> dec, db |-> d]

Retrieve(d, t, key, ty, io) == RetrieveSlice(d, t, SliceOfTagged(key), ty, io)

RetrieveH(d, t, key, ty, io) == RetrieveSlice(d, t, SliceOfPlain(key), ty, io)

\* Mutant of StoreSlice: the table argument is ignored, GENESIS is written.
StoreSliceToGenesis(d, t, slice, obj, io) ==
  LET put == ClientStore(d, TableName[GENESIS], slice, Encode(obj), io) IN
  IF put.ok THEN [out |-> "Ok", result |-> None, db |-> put.db]
  ELSE [out |-> "IOError", result |-> None, db |-> d]

\* Mutant of StoreSlice: a key that holds a value is left as it is.
StoreSliceIfAbsent(d, t, slice, obj, io) ==
  LET put == ClientStore(d, TableName[t], slice, Encode(obj), io) IN
  IF ~put.ok THEN [out |-> "IOError", result |-> None, db |-> d]
  ELSE IF d[TableName[t], slice] = None THEN [out |-> "Ok", result |-> None, db |-> put.db]
  ELSE [out |-> "Ok", result |-> None, db |-> d]

\* Shared body of store and store_h once the key is a Slice32.
StoreSlice(d, t, slice, obj, io) ==
  LET put == ClientStore(d, TableName[t], slice, Encode(obj), io) IN
  IF put.ok THEN [out |-> "Ok", result |-> None, db |-> put.db]
  ELSE [out |-> "IOError", result |-> None, db |-> d]

Store(d, t, key, obj, io) == StoreSlice(d, t, SliceOfTagged(key), obj, io)

StoreH(d, t, key, obj, io) == StoreSlice(d, t, SliceOfPlain(key), obj, io)

\* ------------------------------------------------------ Db::store_merge
\* Mutant of StoreMerge: a failed merge falls back to new_obj, which is stored.
StoreMergeOverwrites(d, t, key, new, ioR, ioW) ==
  LET r == Retrieve(d, t, key, "reveal", ioR) IN
  IF r.out # "Ok" THEN r
  ELSE LET stored == IF r.result = None THEN new ELSE r.result[1]
           obj == MergeReveal(new, stored)
       IN Store(d, GENESIS, key, IF obj = None THEN new ELSE obj[1], ioW)

\* Mutant of StoreMerge: an error of the read is dropped and taken for
\* nothing stored.
StoreMergeIgnoresReadError(d, t, key, new, ioR, ioW) ==
  LET r == Retrieve(d, t, key, "reveal", ioR)
      stored == IF r.result = None THEN new ELSE r.result[1]
      obj == MergeReveal(new, stored)
  IN IF obj = None THEN [out |-> "Panic", result |-> None, db |-> d]
     ELSE Store(d, GENESIS, key, obj[1], ioW)

\* Mutant of StoreMerge: the merged object is stored in the table it was
\* read from.
StoreMergeToTable(d, t, key, new, ioR, ioW) ==
  LET r == Retrieve(d, t, key, "reveal", ioR) IN
  IF r.out # "Ok" THEN r
  ELSE LET stored == IF r.result = None THEN new ELSE r.result[1]
           obj == MergeReveal(new, stored)
       IN IF obj = None THEN [out |-> "Panic", result |-> None, db |-> d]
          ELSE Store(d, t, key, obj[1], ioW)

\* The read fails: the error is returned.  Otherwise the stored object (or
\* new_obj itself when nothing is stored) is merged into new_obj; a failed
\* merge panics (expect), a successful one is stored in the GENESIS table.
StoreMerge(d, t, key, new, ioR, ioW) ==
  LET r == Retrieve(d, t, key, "reveal", ioR) IN
  IF r.out # "Ok" THEN r
  ELSE LET stored == IF r.result = None THEN new ELSE r.result[1]
           obj == MergeReveal(new, stored)
       IN IF obj = None THEN [out |-> "Panic", result |-> None, db |-> d]
          ELSE Store(d, GENESIS, key, obj[1], ioW)

\* Mutant of StoreMergeH: the merged object is stored in the table it was
\* read from, in this entry point only.
StoreMergeHToTable(d, t, key, new, ioR, ioW) ==
  LET r == RetrieveH(d, t, key, "reveal", ioR) IN
  IF r.out # "Ok" THEN r
  ELSE LET stored == IF r.result = None THEN new ELSE r.result[1]
           obj == MergeReveal(new, stored)
       IN IF obj = None THEN [out |-> "Panic", result |-> None, db |-> d]
          ELSE StoreH(d, t, key, obj[1], ioW)

StoreMergeH(d, t, key, new, ioR, ioW) ==
  LET r == RetrieveH(d, t, key, "reveal", ioR) IN
  IF r.out # "Ok" THEN r
  ELSE LET stored == IF r.result = None THEN new ELSE r.result[1]
           obj == MergeReveal(new, stored)
       IN IF obj = None THEN [out |-> "Panic", result |-> None, db |-> d]
          ELSE StoreH(d, GENESIS, key, obj[1], ioW)

\* ----------------------------------------------------- transport requests
\* The requests a call sends to the transport, in order, each with whether
\* the transport answered it.  retrieve / retrieve_h send one retrieve.
RetrieveRequests(io) == <<IF io THEN "retrieve:ok" ELSE "retrieve:fail">>

\* store / store_h send one store.
StoreRequests(io) == <<IF io THEN "store:ok" ELSE "store:fail">>

\* store_merge / store_merge_h send the retrieve and, when it returned Ok and
\* the merge succeeded, the store.
StoreMergeRequests(d, t, slice, new, ioR, ioW) ==
  LET r == RetrieveSlice(d, t, slice, "reveal", ioR) IN
  IF r.out # "Ok" THEN RetrieveRequests(ioR)
  ELSE IF MergeReveal(new, IF r.result = None THEN new ELSE r.result[1]) = None
    THEN RetrieveRequests(ioR)
  ELSE RetrieveRequests(ioR) \o StoreRequests(ioW)

\* ------------------------------------------------------------- Db::with
\* The use_table requests Db::with issues when the connection is up and the
\* failAt-th request fails (failAt = 0: none fails): the loop stops at the
\* first failure.
UseTableRequests(failAt) ==
  LET n == IF failAt = 0 THEN Len(TableList) ELSE failAt
  IN [i \in 1..n |-> TableName[TableList[i]]]

\* Mutant of With: the result of use_table is dropped, the loop goes on and
\* the handle is returned.
WithIgnoresFailure(reg, connOk, failAt) ==
  IF ~connOk
    THEN [out |-> "LaunchError", handle |-> FALSE, reqs |-> <<>>, acks |-> 0,
          registered |-> reg]
  ELSE LET reqs == UseTableRequests(0)
           okAt == {i \in 1..Len(reqs) : i # failAt}
       IN [out |-> "Ok",
           handle |-> TRUE,
           reqs |-> reqs,
           acks |-> Cardinality(okAt),
           registered |-> reg \cup {reqs[i] : i \in okAt}]

\* Db::with: a failed connection or a failed use_table is a LaunchError and
\* no Db; otherwise the Db handle.
With(reg, connOk, failAt) ==
  IF ~connOk
    THEN [out |-> "LaunchError", handle |-> FALSE, reqs |-> <<>>, acks |-> 0,
          registered |-> reg]
  ELSE LET reqs == UseTableRequests(failAt)
           acks == IF failAt = 0 THEN Len(reqs) ELSE Len(reqs) - 1
       IN [out |-> IF failAt = 0 THEN "Ok" ELSE "LaunchError",
           handle |-> failAt = 0,
           reqs |-> reqs,
           acks |-> acks,
           registered |-> reg \cup {reqs[i] : i \in 1..acks}]

\* ---------------------------------------------------------------- state
VARIABLES
  phase,       \* "down": no Db handle (not launched, or the process aborted); "up"
  registered,  \* table names registered on the transport
  db,          \* the transport's content: [table name, key] -> None | Some(bytes)
  last,        \* the last call: its entry point, arguments and outcome
  nops,        \* data calls made so far
  written,     \* (logical table, key) pairs a store request has been issued for
  mroots,      \* per key, the roots of the operands of the merge-store calls
  plain,       \* TRUE once a plain store / store_h call has been made
  callers      \* the store_merge calls in progress, when callers run concurrently

vars == <<phase, registered, db, last, nops, written, mroots, plain, callers>>

NoCall ==
  [op |-> "none", t |-> "", k |-> 0, obj |-> None, ty |-> "", out |-> "",
   result |-> None, reqs |-> <<>>, acks |-> 0, conn |-> FALSE]

Init ==
  /\ phase = "down"
  /\ registered = {}
  /\ db = [c \in Names \X Keys |-> None]
  /\ last = NoCall
  /\ nops = 0
  /\ written = {}
  /\ mroots = [k \in Keys |-> {}]
  /\ plain = FALSE
  /\ callers = <<>>

\* Db::with(store_endpoint)
CallWith ==
  /\ phase = "down"
  /\ \E connOk \in BOOLEAN, failAt \in 0..Len(TableList) :
       LET w == With(registered, connOk, failAt) IN
       /\ phase' = IF w.handle THEN "up" ELSE "down"
       /\ registered' = w.registered
       /\ last' = [NoCall EXCEPT !.op = "with", !.out = w.out, !.reqs = w.reqs,
                                 !.acks = w.acks, !.conn = connOk]
  /\ UNCHANGED <<db, nops, written, mroots, plain, callers>>

\* db.retrieve(table, key)
CallRetrieve ==
  /\ phase = "up" /\ nops < MaxOps
  /\ \E t \in Tables, key \in TaggedKeys, ty \in {"reveal", "blob"}, io \in BOOLEAN :
       LET r == Retrieve(db, t, key, ty, io) IN
       last' = [NoCall EXCEPT !.op = "retrieve", !.t = t, !.k = SliceOfTagged(key),
                              !.ty = ty, !.out = r.out, !.result = r.result,
                              !.reqs = RetrieveRequests(io)]
  /\ nops' = nops + 1
  /\ UNCHANGED <<phase, registered, db, written, mroots, plain, callers>>

\* db.retrieve_h(table, key)
CallRetrieveH ==
  /\ phase = "up" /\ nops < MaxOps
  /\ \E t \in Tables, key \in PlainKeys, ty \in {"reveal", "blob"}, io \in BOOLEAN :
       LET r == RetrieveH(db, t, key, ty, io) IN
       last' = [NoCall EXCEPT !.op = "retrieve_h", !.t = t, !.k = SliceOfPlain(key),
                              !.ty = ty, !.out = r.out, !.result = r.result,
                              !.reqs = RetrieveRequests(io)]
  /\ nops' = nops + 1
  /\ UNCHANGED <<phase, registered, db, written, mroots, plain, callers>>

\* db.store(table, key, &data)
CallStore ==
  /\ phase = "up" /\ nops < MaxOps
  /\ \E t \in Tables, key \in TaggedKeys, obj \in Objects, io \in BOOLEAN :
       LET r == Store(db, t, key, obj, io) IN
       /\ db' = r.db
       /\ last' = [NoCall EXCEPT !.op = "store", !.t = t, !.k = SliceOfTagged(key),
                                 !.obj = Some(obj), !.ty = obj.ty, !.out = r.out,
                                 !.reqs = StoreRequests(io)]
       /\ written' = IF io THEN written \cup {<<t, SliceOfTagged(key)>>} ELSE written
  /\ nops' = nops + 1
  /\ plain' = TRUE
  /\ UNCHANGED <<phase, registered, mroots, callers>>

\* db.store_h(table, key, &data)
CallStoreH ==
  /\ phase = "up" /\ nops < MaxOps
  /\ \E t \in Tables, key \in PlainKeys, obj \in Objects, io \in BOOLEAN :
       LET r == StoreH(db, t, key, obj, io) IN
       /\ db' = r.db
       /\ last' = [NoCall EXCEPT !.op = "store_h", !.t = t, !.k = SliceOfPlain(key),
                                 !.obj = Some(obj), !.ty = obj.ty, !.out = r.out,
                                 !.reqs = StoreRequests(io)]
       /\ written' = IF io THEN written \cup {<<t, SliceOfPlain(key)>>} ELSE written
  /\ nops' = nops + 1
  /\ plain' = TRUE
  /\ UNCHANGED <<phase, registered, mroots, callers>>

\* db.store_merge(table, key, new_obj); a panic ends the process, and with it
\* the Db handle.
CallStoreMerge ==
  /\ phase = "up" /\ nops < MaxOps
  /\ \E t \in Tables, key \in TaggedKeys, new \in Reveals, ioR \in BOOLEAN, ioW \in BOOLEAN :
       LET r == StoreMerge(db, t, key, new, ioR, ioW)
           k == SliceOfTagged(key) IN
       /\ db' = r.db
       /\ last' = [NoCall EXCEPT !.op = "store_merge", !.t = t, !.k = k,
                                 !.obj = Some(new), !.ty = new.ty, !.out = r.out,
                                 !.reqs = StoreMergeRequests(db, t, k, new, ioR, ioW)]
       /\ phase' = IF r.out = "Panic" THEN "down" ELSE phase
       /\ written' = IF r.out = "Ok" THEN written \cup {<<GENESIS, k>>} ELSE written
       /\ mroots' = [mroots EXCEPT ![k] = @ \cup {new.root}]
  /\ nops' = nops + 1
  /\ UNCHANGED <<registered, plain, callers>>

\* db.store_merge_h(table, key, new_obj)
CallStoreMergeH ==
  /\ phase = "up" /\ nops < MaxOps
  /\ \E t \in Tables, key \in PlainKeys, new \in Reveals, ioR \in BOOLEAN, ioW \in BOOLEAN :
       LET r == StoreMergeH(db, t, key, new, ioR, ioW)
           k == SliceOfPlain(key) IN
       /\ db' = r.db
       /\ last' = [NoCall EXCEPT !.op = "store_merge_h", !.t = t, !.k = k,
                                 !.obj = Some(new), !.ty = new.ty, !.out = r.out,
                                 !.reqs = StoreMergeRequests(db, t, k, new, ioR, ioW)]
       /\ phase' = IF r.out = "Panic" THEN "down" ELSE phase
       /\ written' = IF r.out = "Ok" THEN written \cup {<<GENESIS, k>>} ELSE written
       /\ mroots' = [mroots EXCEPT ![k] = @ \cup {new.root}]
  /\ nops' = nops + 1
  /\ UNCHANGED <<registered, plain, callers>>

Next ==
  \/ CallWith
  \/ CallRetrieve
  \/ CallRetrieveH
  \/ CallStore
  \/ CallStoreH
  \/ CallStoreMerge
  \/ CallStoreMergeH

Spec == Init /\ [][Next]_vars

\* ------------------------------------------------- concurrent merge-stores
\* Two callers, each with its own handle on the same transport, run
\* store_merge (h = FALSE) or store_merge_h (h = TRUE) on the same
\* (table, key) with two reveals of one root; the retrieve and the store of a
\* call are separate requests, and the other caller's requests may come in
\* between.  The cell read holds nothing or a reveal of the same root.
Caller(t, k, new, h) ==
  [pc |-> "read", t |-> t, k |-> k, new |-> new, h |-> h, obj |-> None,
   out |-> "", inter |-> FALSE]

InitPar ==
  /\ phase = "up"
  /\ registered = Names
  /\ last = NoCall
  /\ nops = 0
  /\ written = {}
  /\ mroots = [k \in Keys |-> {}]
  /\ plain = FALSE
  /\ \E t \in Tables, k \in Keys, r \in Roots :
       /\ \E old \in {None} \cup {Some(Encode(Reveal(r, D))) : D \in SUBSET Fields} :
            db = [c \in Names \X Keys |-> IF c = <<TableName[t], k>> THEN old ELSE None]
       /\ \E A \in SUBSET Fields, B \in SUBSET Fields, h1 \in BOOLEAN, h2 \in BOOLEAN :
            callers = <<Caller(t, k, Reveal(r, A), h1), Caller(t, k, Reveal(r, B), h2)>>

\* The retrieve of caller c's store_merge and the merge_reveal on its answer
\* (db.rs 109-112, 122-125).
ParRead(c) ==
  /\ callers[c].pc = "read"
  /\ \E io \in BOOLEAN :
       LET me == callers[c]
           r == IF me.h THEN RetrieveH(db, me.t, PlainKey(me.k), "reveal", io)
                ELSE Retrieve(db, me.t, TaggedKey(me.k), "reveal", io)
           stored == IF r.result = None THEN me.new ELSE r.result[1]
           obj == MergeReveal(me.new, stored)
       IN callers' =
            [callers EXCEPT ![c] =
               IF r.out # "Ok" THEN [me EXCEPT !.pc = "done", !.out = r.out]
               ELSE IF obj = None THEN [me EXCEPT !.pc = "done", !.out = "Panic"]
               ELSE [me EXCEPT !.pc = "write", !.obj = obj,
                               !.inter = (callers[3 - c].pc = "write")]]
  /\ UNCHANGED <<phase, registered, db, last, nops, written, mroots, plain>>

\* The store of caller c's store_merge (db.rs 113, 126).
ParWrite(c) ==
  /\ callers[c].pc = "write"
  /\ \E io \in BOOLEAN :
       LET me == callers[c]
           w == IF me.h THEN StoreH(db, GENESIS, PlainKey(me.k), me.obj[1], io)
                ELSE Store(db, GENESIS, TaggedKey(me.k), me.obj[1], io)
       IN /\ db' = w.db
          /\ callers' = [callers EXCEPT ![c] = [me EXCEPT !.pc = "done", !.out = w.out]]
  /\ UNCHANGED <<phase, registered, last, nops, written, mroots, plain>>

NextPar ==
  \/ \E c \in {1, 2} : ParRead(c)
  \/ \E c \in {1, 2} : ParWrite(c)

SpecPar == InitPar /\ [][NextPar]_vars

\* -------------------------------------------------------------- helpers
IsRetrieve(c) == c.op \in {"retrieve", "retrieve_h"}
IsStore(c) == c.op \in {"store", "store_h"}
IsMerge(c) == c.op \in {"store_merge", "store_merge_h"}

\* What retrieve(t, k) / retrieve_h(t, k) at type ty answer on the content d
\* when the transport responds.
RetrieveView(d, t, k, ty) ==
  LET r == Retrieve(d, t, TaggedKey(k), ty, TRUE) IN <<r.out, r.result>>
RetrieveHView(d, t, k, ty) ==
  LET r == RetrieveH(d, t, PlainKey(k), ty, TRUE) IN <<r.out, r.result>>

\* The mergeable object held by the cell of logical table t and key k, if any.
ObjAt(d, t, k) ==
  IF d[TableName[t], k] = None THEN None ELSE Decode("reveal", d[TableName[t], k][1])

\* The fields disclosed by the content of a cell of the transport.
DiscOf(cell) ==
  IF cell = None \/ Decode("reveal", cell[1]) = None THEN {}
  ELSE Decode("reveal", cell[1])[1].disc

\* ----------------------------------------------------------------- C1
\* C1: when an object A with root R1 is stored at (t,k), a store_merge or
\* store_merge_h of an object B with another root at (t,k) writes nothing and
\* never succeeds: it ends in the consistency violation (the panic), or in
\* IOError when the transport fails the read.
C1_ConflictRefused ==
  [][\A t \in Tables, k \in Keys :
       (/\ IsMerge(last')
        /\ last'.t = t /\ last'.k = k
        /\ ObjAt(db, t, k) # None
        /\ ObjAt(db, t, k)[1].root # last'.obj[1].root)
       => /\ db' = db
          /\ last'.out # "Ok"
          /\ last'.out # "IOError" => last'.out = "Panic"]_vars

C1_Witness ==
  /\ IsMerge(last)
  /\ last.out = "Panic"
  /\ ObjAt(db, last.t, last.k) # None
  /\ ObjAt(db, last.t, last.k)[1].root # last.obj[1].root
  /\ ObjAt(db, last.t, last.k)[1].disc # {}

\* ----------------------------------------------------------------- C2
\* C2: starting with nothing stored at (t,k), merge-storing two consistent
\* versions A and B of one object at (t,k), in either order, leaves
\* retrieve(t,k) returning the object that discloses the union of their
\* fields, for every one of the nine tables.
C2_Converges ==
  [][(/\ nops = 1
      /\ IsMerge(last) /\ last.out = "Ok"
      /\ IsMerge(last') /\ last'.out = "Ok"
      /\ last'.t = last.t /\ last'.k = last.k
      /\ last'.obj[1].root = last.obj[1].root)
     => RetrieveView(db', last.t, last.k, "reveal")
          = <<"Ok", Some(Reveal(last.obj[1].root,
                                last.obj[1].disc \cup last'.obj[1].disc))>>]_vars

\* ----------------------------------------------------------------- C3
\* C3: while only merge-stores are made and the operands at each key commit
\* to one root, no cell of the store loses a disclosed field in a call.
C3_NeverShrinks ==
  [][(/\ IsMerge(last')
      /\ ~plain'
      /\ \A k \in Keys : Cardinality(mroots'[k]) <= 1)
     => \A c \in Names \X Keys : DiscOf(db[c]) \subseteq DiscOf(db'[c])]_vars

\* ----------------------------------------------------------------- C4
\* C4: after a successful store_merge(t,k,X) (store_merge_h), the same call
\* made again succeeds and leaves the whole store as it is.
C4_MergeIdempotent ==
  (IsMerge(last) /\ last.out = "Ok")
  => /\ StoreMerge(db, last.t, TaggedKey(last.k), last.obj[1], TRUE, TRUE)
          = [out |-> "Ok", result |-> None, db |-> db]
     /\ StoreMergeH(db, last.t, PlainKey(last.k), last.obj[1], TRUE, TRUE)
          = [out |-> "Ok", result |-> None, db |-> db]

\* A merge into an object that already disclosed more than the operand.
C4_Witness ==
  /\ IsMerge(last) /\ last.out = "Ok"
  /\ last.t = GENESIS
  /\ DiscOf(db[TableName[GENESIS], last.k]) # last.obj[1].disc

\* ----------------------------------------------------------------- C5
\* C5: after a successful store(t,k,o) or store_h(t,k,o), retrieve(t,k) and
\* retrieve_h(t,k) at the type of o return Some(o), for each of the nine
\* tables and whatever was stored before.
C5_RoundTrip ==
  (IsStore(last) /\ last.out = "Ok")
  => /\ RetrieveView(db, last.t, last.k, last.ty) = <<"Ok", last.obj>>
     /\ RetrieveHView(db, last.t, last.k, last.ty) = <<"Ok", last.obj>>

C5_Witness ==
  /\ IsStore(last) /\ last.out = "Ok"
  /\ nops = 2
  /\ last.ty = "reveal" /\ last.obj[1].disc # {}
  /\ Cardinality(written) = 1

\* ----------------------------------------------------------------- C6
\* C6: a plain store(t,k,o) leaves retrieve(t2,k) unchanged for every other
\* logical table t2, and every cell of another (table, key) pair unchanged.
C6_StoreFrame ==
  [][IsStore(last')
     => \A t2 \in Tables, k2 \in Keys :
          <<t2, k2>> # <<last'.t, last'.k>>
          => /\ db'[TableName[t2], k2] = db[TableName[t2], k2]
             /\ \A ty \in {"reveal", "blob"} :
                  RetrieveView(db', t2, k2, ty) = RetrieveView(db, t2, k2, ty)]_vars

\* ----------------------------------------------------------------- C7
\* C7: a retrieve or retrieve_h on a (table, key) pair no call has written
\* to returns Ok(None) whenever the transport responds.
C7_AbsentIsNone ==
  (/\ IsRetrieve(last)
   /\ <<last.t, last.k>> \notin written
   /\ last.out # "IOError")
  => (last.out = "Ok" /\ last.result = None)

\* ----------------------------------------------------------------- C8
\* C8: Db::with yields a handle exactly when the connection and all nine
\* registrations succeeded; otherwise a LaunchError, no handle, and the
\* failed request is the last one it issued.
C8_AllOrNothing ==
  last.op = "with"
  => /\ last.out \in {"Ok", "LaunchError"}
     /\ (phase = "up") = (last.out = "Ok")
     /\ last.out = "Ok"
          => /\ last.conn
             /\ last.acks = Cardinality(Tables)
             /\ Len(last.reqs) = Cardinality(Tables)
     /\ last.out = "LaunchError"
          => \/ ~last.conn /\ last.reqs = <<>>
             \/ /\ last.conn
                /\ last.acks < Cardinality(Tables)
                /\ Len(last.reqs) = last.acks + 1

\* A launch that failed at a registration in the middle of the list.
C8_Witness ==
  /\ last.op = "with" /\ last.out = "LaunchError"
  /\ last.conn /\ last.acks = 4
  /\ phase = "down"

\* ----------------------------------------------------------------- C9
\* C9: while the Db handle exists, the name of each of the nine logical
\* tables is registered on the transport, so no data call targets an
\* unregistered table.
C9_AllRegistered ==
  /\ phase = "up" => \A t \in Tables : TableName[t] \in registered
  /\ (IsRetrieve(last) \/ IsStore(last) \/ IsMerge(last))
       => TableName[last.t] \in registered /\ TableName[GENESIS] \in registered

C9_Witness ==
  /\ phase = "up"
  /\ IsStore(last) /\ last.out = "Ok" /\ last.t = "AluLibraries"

\* ---------------------------------------------------------------- C10
\* C10: every store_merge / store_merge_h call returns one of (),
\* DecodeError, IOError or ConsistencyViolation to its caller.
C10_AlwaysReturns ==
  IsMerge(last)
  => /\ last.out \in {"Ok", "DecodeError", "IOError", "ConsistencyViolation"}
     /\ phase = "up"

\* ---------------------------------------------------------------- C11
\* C11: after a successful store_merge(t,k,new) or store_merge_h,
\* retrieve(t,k) returns merge(new, old), old being the object stored at
\* (t,k) before the call, or new itself when nothing was stored there.
C11_MergedAtSameCell ==
  [][(IsMerge(last') /\ last'.out = "Ok")
     => LET new == last'.obj[1]
            old == ObjAt(db, last'.t, last'.k)
        IN RetrieveView(db', last'.t, last'.k, "reveal")
             = <<"Ok", MergeReveal(new, IF old = None THEN new ELSE old[1])>>]_vars

\* ---------------------------------------------------------------- C12
\* C12: a successful store_merge(t,k,new) or store_merge_h writes the merge
\* of new with the object read at (t,k) to the cell (Genesis, k), whatever
\* the table argument, and leaves every other cell unchanged.
C12_WritesGenesisOnly ==
  [][(IsMerge(last') /\ last'.out = "Ok")
     => LET new == last'.obj[1]
            old == ObjAt(db, last'.t, last'.k)
            obj == MergeReveal(new, IF old = None THEN new ELSE old[1])
        IN /\ db'[TableName[GENESIS], last'.k] = Some(Encode(obj[1]))
           /\ \A c \in Names \X Keys :
                c # <<TableName[GENESIS], last'.k>> => db'[c] = db[c]]_vars

\* A merge-store on Bundles that read a stored object there and wrote Genesis.
C12_Witness ==
  /\ IsMerge(last) /\ last.out = "Ok"
  /\ last.t = "Bundles"
  /\ ObjAt(db, "Bundles", last.k) # None
  /\ ObjAt(db, "Bundles", last.k)[1].disc # {}
  /\ ObjAt(db, GENESIS, last.k)
       = MergeReveal(last.obj[1], ObjAt(db, "Bundles", last.k)[1])
  /\ ObjAt(db, GENESIS, last.k) # Some(last.obj[1])

\* ---------------------------------------------------------------- C14
\* C14: when the read of store_merge / store_merge_h fails, by a transport
\* failure or by stored bytes that do not decode, the call returns that
\* error, sends no store request and no second retrieve, and leaves every
\* cell unchanged.
C14_ReadFailureReturned ==
  [][IsMerge(last')
     => LET bytes == db[TableName[last'.t], last'.k]
            undecodable == bytes # None /\ Decode("reveal", bytes[1]) = None
        IN /\ last'.reqs[1] = "retrieve:fail"
                => /\ last'.out = "IOError"
                   /\ last'.reqs = <<"retrieve:fail">>
                   /\ db' = db
           /\ (last'.reqs[1] = "retrieve:ok" /\ undecodable)
                => /\ last'.out = "DecodeError"
                   /\ last'.reqs = <<"retrieve:ok">>
                   /\ db' = db]_vars

\* A merge-store that found bytes of another type at (t,k).
C14_Witness ==
  /\ IsMerge(last)
  /\ last.out = "DecodeError"
  /\ last.reqs = <<"retrieve:ok">>
  /\ db[TableName[last.t], last.k] = Some(Encode(Blob(<<7>>)))

\* ---------------------------------------------------------------- C15
\* C15: for every store state, table, object and key given as the same 32
\* bytes, retrieve and retrieve_h, store and store_h, store_merge and
\* store_merge_h give the same outcome and the same resulting store.
C15_SameForBothKeyKinds ==
  [][LET c == last' IN
     /\ IsRetrieve(c)
          => \A io \in BOOLEAN :
               Retrieve(db, c.t, TaggedKey(c.k), c.ty, io)
                 = RetrieveH(db, c.t, PlainKey(c.k), c.ty, io)
     /\ IsStore(c)
          => \A io \in BOOLEAN :
               Store(db, c.t, TaggedKey(c.k), c.obj[1], io)
                 = StoreH(db, c.t, PlainKey(c.k), c.obj[1], io)
     /\ IsMerge(c)
          => \A ioR \in BOOLEAN, ioW \in BOOLEAN :
               StoreMerge(db, c.t, TaggedKey(c.k), c.obj[1], ioR, ioW)
                 = StoreMergeH(db, c.t, PlainKey(c.k), c.obj[1], ioR, ioW)]_vars

\* A store_merge_h on Anchors that read an object and widened it.
C15_Witness ==
  /\ last.op = "store_merge_h" /\ last.out = "Ok"
  /\ last.t = "Anchors"
  /\ ObjAt(db, "Anchors", last.k) # None
  /\ ObjAt(db, GENESIS, last.k) # None
  /\ DiscOf(db[TableName[GENESIS], last.k]) # last.obj[1].disc

\* ---------------------------------------------------------------- C16
\* C16: a plain store / store_h sends one store request and no retrieve,
\* succeeds whenever the transport answers, whatever is stored at (t,k),
\* never panics, and leaves exactly the stored object at (t,k).
C16_PlainOverwrite ==
  [][IsStore(last')
     => /\ last'.reqs \in {<<"store:ok">>, <<"store:fail">>}
        /\ last'.out = IF last'.reqs = <<"store:ok">> THEN "Ok" ELSE "IOError"
        /\ phase' = "up"
        /\ last'.out = "Ok"
             => /\ db'[TableName[last'.t], last'.k] = Some(Encode(last'.obj[1]))
                /\ RetrieveView(db', last'.t, last'.k, last'.ty) = <<"Ok", last'.obj>>
        /\ last'.out # "Ok" => db' = db]_vars

\* A plain store on (Genesis, k) of an object whose root differs from the one
\* merge-stored at that key before.
C16_Witness ==
  /\ IsStore(last) /\ last.out = "Ok"
  /\ last.t = GENESIS
  /\ last.ty = "reveal"
  /\ mroots[last.k] # {}
  /\ last.obj[1].root \notin mroots[last.k]
  /\ last.obj[1].disc = {}

\* ---------------------------------------------------------------- C13
\* Both concurrent calls have returned Ok.
BothDone == \A c \in {1, 2} : callers[c].pc = "done" /\ callers[c].out = "Ok"

\* A caller read between the other caller's read and write.
Interleaved == \E c \in {1, 2} : callers[c].inter

\* C13, first half: with both reads before either write, a final state in
\* which the stored object lacks a field disclosed by A or B is reachable.
C13_LostUpdate ==
  /\ BothDone /\ Interleaved
  /\ callers[1].t = GENESIS
  /\ ObjAt(db, GENESIS, callers[1].k) # None
  /\ ~ (callers[1].new.disc \cup callers[2].new.disc
          \subseteq ObjAt(db, GENESIS, callers[1].k)[1].disc)

\* C13, second half: when the two store_merge calls on (t,k) run one after
\* the other, the final state holds, at (t,k) or at the cell the calls wrote,
\* an object that discloses every field disclosed by A and by B.
C13_SerialKeepsAll ==
  (BothDone /\ ~Interleaved)
  => \E t2 \in {callers[1].t, GENESIS} :
       /\ ObjAt(db, t2, callers[1].k) # None
       /\ callers[1].new.disc \cup callers[2].new.disc
            \subseteq ObjAt(db, t2, callers[1].k)[1].disc

====
